---- MODULE Spec2Model ----
(***************************************************************************)
(* VibeTutor: a model of the response normaliser (services/geminiService), *)
(* the App orchestration (App.tsx), the exam modal (components/ExamModal)  *)
(* and the knowledge-graph component (components/KnowledgeGraph).          *)
(*                                                                         *)
(* Texts are sequences of one-character strings, so that JSON.parse, the   *)
(* fence-stripping regular expression and String.trim are computed on the  *)
(* characters and not assumed.                                             *)
(***************************************************************************)
EXTENDS Integers, Sequences, FiniteSets, TLC

(***************************************************************************)
(* JavaScript values.  Every value is a record with the type tag k and a   *)
(* payload field named after the type.  An object is a sequence of         *)
(* <<key, value>> pairs in insertion order with distinct keys.             *)
(***************************************************************************)
JNull == [k |-> "null"]
JUndef == [k |-> "undef"]
JBool(b) == [k |-> "bool", b |-> b]
JNum(n) == [k |-> "num", n |-> n]
JStr(s) == [k |-> "str", s |-> s]
JArr(a) == [k |-> "arr", a |-> a]
JObj(m) == [k |-> "obj", m |-> m]

\* ToBoolean: null, undefined, false, 0 and "" are falsy, all else truthy.
Truthy(x) ==
  CASE x.k = "null" -> FALSE
    [] x.k = "undef" -> FALSE
    [] x.k = "bool" -> x.b
    [] x.k = "num" -> x.n # 0
    [] x.k = "str" -> x.s # <<>>
    [] OTHER -> TRUE

\* Array.isArray
IsArray(x) == x.k = "arr"

\* a || b
OrElse(a, b) == IF Truthy(a) THEN a ELSE b

HasKey(m, key) == \E i \in 1..Len(m) : m[i][1] = key

\* x.key for a non-null x: own property of an object, undefined otherwise
\* (none of the keys read by the services is a built-in property).
Get(x, key) ==
  IF x.k = "obj" /\ HasKey(x.m, key)
  THEN x.m[CHOOSE i \in 1..Len(x.m) : x.m[i][1] = key][2]
  ELSE JUndef

\* obj[key] = val while parsing: a repeated key keeps its place, last value wins.
Put(m, key, val) ==
  IF HasKey(m, key)
  THEN [i \in 1..Len(m) |-> IF m[i][1] = key THEN <<key, val>> ELSE m[i]]
  ELSE Append(m, <<key, val>>)

(***************************************************************************)
(* Characters.                                                             *)
(***************************************************************************)
WS == {" ", "\n"}
Digits == <<"0", "1", "2", "3", "4", "5", "6", "7", "8", "9">>
DigitSet == {Digits[i] : i \in 1..10}
DigitVal(c) == (CHOOSE i \in 1..10 : Digits[i] = c) - 1

\* the character at position i, "" past the end
At(s, i) == IF i \in 1..Len(s) THEN s[i] ELSE ""

\* does the literal lit occur in s at position i
Matches(s, i, lit) ==
  /\ i >= 1
  /\ i + Len(lit) - 1 <= Len(s)
  /\ \A j \in 1..Len(lit) : s[i + j - 1] = lit[j]

\* first position >= i that holds no whitespace (Len(s) + 1 at the end)
SkipWs(s, i) ==
  CHOOSE j \in i..(Len(s) + 1) :
    /\ At(s, j) \notin WS
    /\ \A n \in i..(j - 1) : s[n] \in WS

(***************************************************************************)
(* JSON.parse on the subset: objects, arrays, strings without escapes,     *)
(* non-negative integers, true, false, null; whitespace is space and       *)
(* newline.  A parse step returns [ok, val, pos]: pos is the position      *)
(* after the value.                                                        *)
(***************************************************************************)
PFail == [ok |-> FALSE, val |-> JNull, pos |-> 0]
POk(val, pos) == [ok |-> TRUE, val |-> val, pos |-> pos]

LitTrue == <<"t", "r", "u", "e">>
LitFalse == <<"f", "a", "l", "s", "e">>
LitNull == <<"n", "u", "l", "l">>

\* s[i] is the opening quote: the string ends at the next quote, and no raw
\* control character (newline) may occur inside it.
ParseString(s, i) ==
  IF \E j \in (i + 1)..Len(s) : s[j] = "\""
  THEN LET j == CHOOSE n \in (i + 1)..Len(s) :
                  s[n] = "\"" /\ \A m \in (i + 1)..(n - 1) : s[m] # "\""
       IN IF \E m \in (i + 1)..(j - 1) : s[m] = "\n"
          THEN PFail
          ELSE POk(JStr(SubSeq(s, i + 1, j - 1)), j + 1)
  ELSE PFail

RECURSIVE DigitsValue(_, _, _)
DigitsValue(s, i, j) ==
  IF j < i THEN 0 ELSE 10 * DigitsValue(s, i, j - 1) + DigitVal(s[j])

\* s[i] is a digit: "0" stands alone, any other digit starts a maximal run.
ParseNumber(s, i) ==
  IF s[i] = "0"
  THEN POk(JNum(0), i + 1)
  ELSE LET j == CHOOSE n \in i..Len(s) :
                  /\ \A m \in i..n : s[m] \in DigitSet
                  /\ At(s, n + 1) \notin DigitSet
       IN POk(JNum(DigitsValue(s, i, j)), j + 1)

RECURSIVE ParseValue(_, _)
RECURSIVE ParseElements(_, _, _)
RECURSIVE ParseMembers(_, _, _)

ParseValue(s, i) ==
  LET c == At(s, i) IN
  CASE c = "{" ->
         LET j == SkipWs(s, i + 1) IN
         IF At(s, j) = "}" THEN POk(JObj(<<>>), j + 1)
         ELSE ParseMembers(s, j, <<>>)
    [] c = "[" ->
         LET j == SkipWs(s, i + 1) IN
         IF At(s, j) = "]" THEN POk(JArr(<<>>), j + 1)
         ELSE ParseElements(s, j, <<>>)
    [] c = "\"" -> ParseString(s, i)
    [] c \in DigitSet -> ParseNumber(s, i)
    [] c = "t" -> IF Matches(s, i, LitTrue) THEN POk(JBool(TRUE), i + 4) ELSE PFail
    [] c = "f" -> IF Matches(s, i, LitFalse) THEN POk(JBool(FALSE), i + 5) ELSE PFail
    [] c = "n" -> IF Matches(s, i, LitNull) THEN POk(JNull, i + 4) ELSE PFail
    [] OTHER -> PFail

\* the elements of an array from position i on, acc holding those before
ParseElements(s, i, acc) ==
  LET r == ParseValue(s, i) IN
  IF ~r.ok THEN PFail
  ELSE LET j == SkipWs(s, r.pos) IN
       CASE At(s, j) = "," -> ParseElements(s, SkipWs(s, j + 1), Append(acc, r.val))
         [] At(s, j) = "]" -> POk(JArr(Append(acc, r.val)), j + 1)
         [] OTHER -> PFail

\* the members of an object from position i on, acc holding those before
ParseMembers(s, i, acc) ==
  IF At(s, i) # "\"" THEN PFail
  ELSE LET key == ParseString(s, i) IN
       IF ~key.ok THEN PFail
       ELSE LET j == SkipWs(s, key.pos) IN
            IF At(s, j) # ":" THEN PFail
            ELSE LET r == ParseValue(s, SkipWs(s, j + 1)) IN
                 IF ~r.ok THEN PFail
                 ELSE LET n == SkipWs(s, r.pos) IN
                      CASE At(s, n) = "," ->
                             ParseMembers(s, SkipWs(s, n + 1), Put(acc, key.val.s, r.val))
                        [] At(s, n) = "}" ->
                             POk(JObj(Put(acc, key.val.s, r.val)), n + 1)
                        [] OTHER -> PFail

\* JSON.parse(s): [ok |-> FALSE] stands for the SyntaxError it throws
JSONparse(s) ==
  LET r == ParseValue(s, SkipWs(s, 1)) IN
  IF r.ok /\ SkipWs(s, r.pos) = Len(s) + 1 THEN r ELSE PFail

(***************************************************************************)
(* The global replace of the fence pattern by the empty text (alternative  *)
(* one: three backticks, json, any whitespace; alternative two: any        *)
(* whitespace, three backticks), and String.trim.                          *)
(***************************************************************************)
\* the backtick character (a TLA+ string literal cannot hold it)
BT == "bt"
Fence == <<BT, BT, BT>>
FenceJson == <<BT, BT, BT, "j", "s", "o", "n">>

\* At position i the first alternative matches the json fence and the whitespace
\* after it; otherwise the second matches the whitespace run at i when three
\* backticks follow it.  0 when nothing matches at i, else the position after
\* the match.
MatchEnd(s, i) ==
  IF Matches(s, i, FenceJson) THEN SkipWs(s, i + 7)
  ELSE IF Matches(s, SkipWs(s, i), Fence) THEN SkipWs(s, i) + 3
  ELSE 0

\* the replace from position i on: the text up to the next match is kept,
\* the match is dropped, and the scan goes on after it
RECURSIVE StripFrom(_, _)
StripFrom(s, i) ==
  LET starts == {n \in i..Len(s) : MatchEnd(s, n) # 0} IN
  IF starts = {} THEN SubSeq(s, i, Len(s))
  ELSE LET j == CHOOSE n \in starts : \A m \in starts : n <= m
       IN SubSeq(s, i, j - 1) \o StripFrom(s, MatchEnd(s, j))

StripFences(s) == StripFrom(s, 1)

Trim(s) ==
  IF \A i \in 1..Len(s) : s[i] \in WS THEN <<>>
  ELSE LET a == CHOOSE i \in 1..Len(s) : s[i] \notin WS /\ \A n \in 1..(i - 1) : s[n] \in WS
           b == CHOOSE i \in 1..Len(s) : s[i] \notin WS /\ \A n \in (i + 1)..Len(s) : s[n] \in WS
       IN SubSeq(s, a, b)

(***************************************************************************)
(* safeParseJSON(text).  text is [k |-> "undef"] or JStr(chars).  The      *)
(* result is the parsed value, or null.  parsePasses counts the calls of   *)
(* JSON.parse made.                                                        *)
(***************************************************************************)
safeParseJSON(text) ==
  IF ~Truthy(text) THEN JNull
  ELSE LET first == JSONparse(text.s) IN
       IF first.ok THEN first.val
       ELSE LET cleaned == Trim(StripFences(text.s))
                second == JSONparse(cleaned)
            IN IF second.ok THEN second.val ELSE JNull

parsePasses(text) ==
  IF ~Truthy(text) THEN 0
  ELSE IF JSONparse(text.s).ok THEN 1 ELSE 2

(***************************************************************************)
(* The services.  The external call either rejects or resolves with a      *)
(* response whose text is undefined or a string.  A service call ends in   *)
(* Throw (its promise rejects) or Return(value).                           *)
(***************************************************************************)
Reject == [k |-> "reject", v |-> JUndef]
Resolve(text) == [k |-> "resolve", v |-> text]

Throw == [k |-> "throw", v |-> JUndef]
Return(x) == [k |-> "return", v |-> x]

KTitle == <<"t", "i", "t", "l", "e">>
KDescription == <<"d", "e", "s", "c", "r", "i", "p", "t", "i", "o", "n">>
KModules == <<"m", "o", "d", "u", "l", "e", "s">>
KNodes == <<"n", "o", "d", "e", "s">>
KLinks == <<"l", "i", "n", "k", "s">>
UntitledCourse == <<"U", "n", "t", "i", "t", "l", "e", "d", " ", "C", "o", "u", "r", "s", "e">>

\* parseSyllabus after the external call has ended in resp
parseSyllabusMissingModulesKept(resp) ==
  IF resp.k = "reject" THEN Throw
  ELSE LET parsed == safeParseJSON(resp.v) IN
       IF ~Truthy(parsed) THEN Throw
       ELSE Return(JObj(<< <<KTitle, OrElse(Get(parsed, KTitle), JStr(UntitledCourse))>>,
                           <<KDescription, OrElse(Get(parsed, KDescription), JStr(<<>>))>>,
                           <<KModules, Get(parsed, KModules)>> >>))

parseSyllabus(resp) ==
  IF resp.k = "reject" THEN Throw
  ELSE LET parsed == safeParseJSON(resp.v) IN
       IF ~Truthy(parsed) THEN Throw
       ELSE Return(JObj(<< <<KTitle, OrElse(Get(parsed, KTitle), JStr(UntitledCourse))>>,
                           <<KDescription, OrElse(Get(parsed, KDescription), JStr(<<>>))>>,
                           <<KModules, IF IsArray(Get(parsed, KModules))
                                       THEN Get(parsed, KModules) ELSE JArr(<<>>)>> >>))

EmptyGraph == JObj(<< <<KNodes, JArr(<<>>)>>, <<KLinks, JArr(<<>>)>> >>)

\* generateKnowledgeGraph: the rejection is caught
generateKnowledgeGraphUncaught(resp) ==
  IF resp.k = "reject" THEN Throw
  ELSE LET parsed == OrElse(safeParseJSON(resp.v), JObj(<<>>)) IN
       Return(JObj(<< <<KNodes, IF IsArray(Get(parsed, KNodes))
                                THEN Get(parsed, KNodes) ELSE JArr(<<>>)>>,
                      <<KLinks, IF IsArray(Get(parsed, KLinks))
                                THEN Get(parsed, KLinks) ELSE JArr(<<>>)>> >>))

generateKnowledgeGraph(resp) ==
  IF resp.k = "reject" THEN Return(EmptyGraph)
  ELSE LET parsed == OrElse(safeParseJSON(resp.v), JObj(<<>>)) IN
       Return(JObj(<< <<KNodes, IF IsArray(Get(parsed, KNodes))
                                THEN Get(parsed, KNodes) ELSE JArr(<<>>)>>,
                      <<KLinks, IF IsArray(Get(parsed, KLinks))
                                THEN Get(parsed, KLinks) ELSE JArr(<<>>)>> >>))

\* generateExam: the rejection is caught
generateExamUnchecked(resp) ==
  IF resp.k = "reject" THEN Return(JArr(<<>>))
  ELSE Return(OrElse(safeParseJSON(resp.v), JArr(<<>>)))

generateExam(resp) ==
  IF resp.k = "reject" THEN Return(JArr(<<>>))
  ELSE LET parsed == OrElse(safeParseJSON(resp.v), JArr(<<>>)) IN
       Return(IF IsArray(parsed) THEN parsed ELSE JArr(<<>>))

(***************************************************************************)
(* The text of a response: the service serialises a payload value as JSON  *)
(* (no whitespace) and may wrap it in a fenced code block.                 *)
(***************************************************************************)
RECURSIVE NumChars(_)
NumChars(n) ==
  IF n < 10 THEN <<Digits[n + 1]>>
  ELSE NumChars(n \div 10) \o <<Digits[(n % 10) + 1]>>

RECURSIVE Stringify(_)
RECURSIVE StringifyElements(_, _)
RECURSIVE StringifyMembers(_, _)

Stringify(x) ==
  CASE x.k = "null" -> LitNull
    [] x.k = "bool" -> IF x.b THEN LitTrue ELSE LitFalse
    [] x.k = "num" -> NumChars(x.n)
    [] x.k = "str" -> <<"\"">> \o x.s \o <<"\"">>
    [] x.k = "arr" -> <<"[">> \o StringifyElements(x.a, 1) \o <<"]">>
    [] x.k = "obj" -> <<"{">> \o StringifyMembers(x.m, 1) \o <<"}">>

StringifyElements(a, i) ==
  IF i > Len(a) THEN <<>>
  ELSE (IF i > 1 THEN <<",">> ELSE <<>>) \o Stringify(a[i]) \o StringifyElements(a, i + 1)

StringifyMembers(m, i) ==
  IF i > Len(m) THEN <<>>
  ELSE (IF i > 1 THEN <<",">> ELSE <<>>)
       \o <<"\"">> \o m[i][1] \o <<"\"">> \o <<":">> \o Stringify(m[i][2])
       \o StringifyMembers(m, i + 1)

\* an object of the given <<key, value>> pairs, a pair with value undefined left out
MkObj(pairs) == JObj(SelectSeq(pairs, LAMBDA p : p[2] # JUndef))

KId == <<"i", "d">>
KSource == <<"s", "o", "u", "r", "c", "e">>
KTarget == <<"t", "a", "r", "g", "e", "t">>
KQuestion == <<"q", "u", "e", "s", "t", "i", "o", "n">>
KCorrect == <<"c", "o", "r", "r", "e", "c", "t", "A", "n", "s", "w", "e", "r", "I", "n", "d", "e", "x">>

ModuleA == JObj(<< <<KId, JStr(<<"m">>)>>, <<KTitle, JStr(<<"A">>)>> >>)
NodeA == JObj(<< <<KId, JStr(<<"a">>)>> >>)
LinkAB == JObj(<< <<KSource, JStr(<<"a">>)>>, <<KTarget, JStr(<<"b">>)>> >>)
QuestionA == JObj(<< <<KId, JNum(1)>>, <<KCorrect, JNum(0)>> >>)

\* a string value that holds three backticks
FenceString == JStr(<<"x">> \o Fence)

Atoms ==
  { JNull, JBool(TRUE), JBool(FALSE), JNum(0), JNum(12), JStr(<<>>), JStr(<<"a", " ", "b">>),
    FenceString }

\* answers to the structure request: each field absent, well-shaped or ill-shaped
StructurePayloads ==
  { MkObj(<< <<KTitle, t>>, <<KDescription, d>>, <<KModules, m>> >>) :
      t \in {JUndef, JStr(<<"T">>), JStr(<<>>), JNum(5)},
      d \in {JUndef, JStr(<<"D">>), JNull},
      m \in {JUndef, JArr(<<>>), JArr(<<ModuleA>>), JStr(<<"m">>), JObj(<<>>)} }

\* answers to the graph request
GraphPayloads ==
  { MkObj(<< <<KNodes, n>>, <<KLinks, l>> >>) :
      n \in {JUndef, JArr(<<>>), JArr(<<NodeA>>), JNum(1)},
      l \in {JUndef, JArr(<<>>), JArr(<<LinkAB>>), FenceString} }

\* answers to the exam request
ExamPayloads ==
  { JArr(<<>>), JArr(<<QuestionA>>), JArr(<<QuestionA, QuestionA>>), JArr(<<JNum(1), JNull>>) }

Payloads == Atoms \cup StructurePayloads \cup GraphPayloads \cup ExamPayloads

\* texts that are no JSON: truncated or malformed answers
BrokenTexts ==
  { <<"{">>, <<"{", "\"", "t", "i", "t", "l", "e", "\"", ":">>, <<"[", "1", ",", "]">>, <<"{", "\"", "t", "i", "t", "l", "e", "\"", " ", "\"", "T", "\"", "}">>, <<"0", "1">>, <<"x">>, <<"\"", "a">>, <<>> }

FenceJs == <<BT, BT, BT, "j", "s">>

\* what precedes and what follows the payload in the response text
Openers ==
  { <<>>, FenceJson \o <<"\n">>, FenceJson, Fence \o <<"\n">>, FenceJs \o <<"\n">>,
    <<" ", "\n">> \o FenceJson \o <<"\n">> }
Closers == { <<>>, <<"\n">> \o Fence, Fence, <<"\n">> \o Fence \o <<"\n">> }

\* an opener and a closer that form a fenced code block around the payload
FencedOpeners == Openers \ {<<>>}
FencedClosers == Closers \ {<<>>}

(***************************************************************************)
(* State.                                                                  *)
(***************************************************************************)
VARIABLES
  svcPayload,   \* service call: the payload the service answers with (undefined: a broken text)
  svcOpen,      \* service call: what precedes the payload in the text
  svcClose,     \* service call: what follows it
  svcResp,      \* service call: the outcome of the external call
  svcOp,        \* service call: the function applied, "none" before the call
  svcResult,    \* service call: Throw or Return(value)
  syllabusFile,     \* App: the uploaded document (base64) or null
  structure,        \* App: the CourseStructure or null
  loadingStructure, \* App: the upload is being processed
  uploadPc,         \* handleFileUpload: "idle", "reading" (file being read) or "parsing"
  uploadFile,       \* handleFileUpload: the file chosen, "" when idle
  uploads,          \* number of uploads started
  structResp,       \* the outcome of the last structure request, undefined before it
  alerts,           \* number of alert() dialogs shown
  graphPending,     \* a generateKnowledgeGraph call is in flight
  graphData,        \* App: the KnowledgeGraphData or null
  activeModule,     \* App: the selected module or null
  contentDepth,     \* App: the selected depth
  lessonContent,    \* App: the lesson text shown
  loadingContent,   \* App: the loading flag of the lesson
  lessonReqs,       \* the generateLessonContent calls made, in order, each with its status
  showExam,         \* App: the exam modal is open
  examQuestions,    \* App: the questions handed to the modal
  examPending,      \* number of generateExam calls of startExam in flight
  answers,          \* ExamModal: question id -> selected option index
  submitted,        \* ExamModal: the exam is submitted
  lastSelect,       \* ExamModal: the last option button clicked, <<qId, optionIdx>>
  graphProp,        \* KnowledgeGraph: the data prop, null before the first render
  svgDrawn,         \* KnowledgeGraph: the elements in the svg
  sims,             \* KnowledgeGraph: the simulations created, in order
  graphCrashed,     \* KnowledgeGraph: the effect has thrown (the tree is unmounted)
  drags,            \* KnowledgeGraph: the drag gestures in progress
  chatHistory,      \* App: the messages of the conversation
  chatInput,        \* App: the text of the chat input
  chatImage,        \* App: the attached image (base64) or null
  isChatting,       \* App: the loading flag of the chat
  chatCalls,        \* the chatWithSidekick calls made, in order, each with its status
  loadingAudio,     \* App: the loading flag of the audio tutor
  audioContext,     \* App: audioContextRef.current is set
  audioPc,          \* playAudioTutor: "idle", "synth" (awaiting the speech) or "decode"
  audioResp,        \* playAudioTutor: the speech data being decoded, undefined otherwise
  playbacks,        \* number of playAudioTutor invocations
  playing,          \* the buffer sources started and not yet ended
  decInput,         \* decodeAudioData: the base64 text
  decSamples,       \* decodeAudioData: the samples the text encodes
  decResult         \* decodeAudioData: Throw or Return(buffer), undefined before the call

svcVars == <<svcPayload, svcOpen, svcClose, svcResp, svcOp, svcResult>>
uploadVars ==
  <<syllabusFile, structure, loadingStructure, uploadPc, uploadFile, uploads, structResp,
    alerts, graphPending, graphData>>
lessonVars == <<activeModule, contentDepth, lessonContent, loadingContent, lessonReqs>>
appVars == <<uploadVars, lessonVars>>
examVars == <<showExam, examQuestions, examPending, answers, submitted, lastSelect>>
graphVars == <<graphProp, svgDrawn, sims, graphCrashed, drags>>
chatVars == <<chatHistory, chatInput, chatImage, isChatting, chatCalls>>
audioVars == <<loadingAudio, audioContext, audioPc, audioResp, playbacks, playing>>
decodeVars == <<decInput, decSamples, decResult>>
sessionVars == <<chatVars, audioVars, decodeVars>>
vars == <<svcVars, appVars, examVars, graphVars, sessionVars>>

(***************************************************************************)
(* App: the state after construction.                                      *)
(***************************************************************************)
MaxUploads == 3
MaxLessonRequests == 3

StandardDepth == "Standard"
Depths == {"Summary", "Standard", "Deep Dive"}

\* lesson texts: the initial "", the text generated for request i, and the
\* fallback "Failed to generate content."
NoLesson == [kind |-> "empty", req |-> 0]
Lesson(i) == [kind |-> "lesson", req |-> i]
FailedLesson == [kind |-> "failed", req |-> 0]

\* the files the user may choose, and the base64 data of a file
Files == {"a.pdf", "b.pdf"}
Base64Of(file) == JStr(<<"base64", file>>)

AppInit ==
  /\ syllabusFile = JNull
  /\ structure = JNull
  /\ loadingStructure = FALSE
  /\ uploadPc = "idle"
  /\ uploadFile = ""
  /\ uploads = 0
  /\ structResp = JUndef
  /\ alerts = 0
  /\ graphPending = FALSE
  /\ graphData = JNull
  /\ activeModule = JNull
  /\ contentDepth = StandardDepth
  /\ lessonContent = NoLesson
  /\ loadingContent = FALSE
  /\ lessonReqs = <<>>

ExamInit ==
  /\ showExam = FALSE
  /\ examQuestions = <<>>
  /\ examPending = 0
  /\ answers = <<>>
  /\ submitted = FALSE
  /\ lastSelect = <<>>

GraphInit ==
  /\ graphProp = JNull
  /\ svgDrawn = <<>>
  /\ sims = <<>>
  /\ graphCrashed = FALSE
  /\ drags = {}

ChatInit ==
  /\ chatHistory = <<>>
  /\ chatInput = <<>>
  /\ chatImage = JNull
  /\ isChatting = FALSE
  /\ chatCalls = <<>>

AudioInit ==
  /\ loadingAudio = FALSE
  /\ audioContext = FALSE
  /\ audioPc = "idle"
  /\ audioResp = JUndef
  /\ playbacks = 0
  /\ playing = {}

DecodeInit ==
  /\ decInput = <<>>
  /\ decSamples = <<>>
  /\ decResult = JUndef

SessionInit == ChatInit /\ AudioInit /\ DecodeInit

(***************************************************************************)
(* The services applied to every outcome of the external call.             *)
(***************************************************************************)
SvcIdle ==
  /\ svcPayload = JUndef
  /\ svcOpen = <<>>
  /\ svcClose = <<>>
  /\ svcResp = Reject
  /\ svcOp = "none"
  /\ svcResult = JUndef

InitService ==
  /\ AppInit
  /\ ExamInit
  /\ GraphInit
  /\ SessionInit
  /\ svcOp = "none"
  /\ svcResult = JUndef
  /\ \/ /\ svcPayload \in Payloads
        /\ svcOpen \in Openers
        /\ svcClose \in Closers
        /\ svcResp = Resolve(JStr(svcOpen \o Stringify(svcPayload) \o svcClose))
     \/ /\ svcPayload = JUndef
        /\ svcOpen \in Openers
        /\ svcClose \in Closers
        /\ \E b \in BrokenTexts : svcResp = Resolve(JStr(svcOpen \o b \o svcClose))
     \/ /\ svcPayload = JUndef
        /\ svcOpen = <<>>
        /\ svcClose = <<>>
        /\ svcResp \in {Reject, Resolve(JUndef)}

CallSafeParseJSON ==
  /\ svcOp = "none"
  /\ svcResp.k = "resolve"
  /\ svcOp' = "safeParseJSON"
  /\ svcResult' = Return(safeParseJSON(svcResp.v))
  /\ UNCHANGED <<svcPayload, svcOpen, svcClose, svcResp>>
  /\ UNCHANGED <<appVars, examVars, graphVars, sessionVars>>

CallParseSyllabus ==
  /\ svcOp = "none"
  /\ svcOp' = "parseSyllabus"
  /\ svcResult' = parseSyllabus(svcResp)
  /\ UNCHANGED <<svcPayload, svcOpen, svcClose, svcResp>>
  /\ UNCHANGED <<appVars, examVars, graphVars, sessionVars>>

CallGenerateKnowledgeGraph ==
  /\ svcOp = "none"
  /\ svcOp' = "generateKnowledgeGraph"
  /\ svcResult' = generateKnowledgeGraph(svcResp)
  /\ UNCHANGED <<svcPayload, svcOpen, svcClose, svcResp>>
  /\ UNCHANGED <<appVars, examVars, graphVars, sessionVars>>

CallGenerateExam ==
  /\ svcOp = "none"
  /\ svcOp' = "generateExam"
  /\ svcResult' = generateExam(svcResp)
  /\ UNCHANGED <<svcPayload, svcOpen, svcClose, svcResp>>
  /\ UNCHANGED <<appVars, examVars, graphVars, sessionVars>>

NextService ==
  \/ CallSafeParseJSON
  \/ CallParseSyllabus
  \/ CallGenerateKnowledgeGraph
  \/ CallGenerateExam

SpecService == InitService /\ [][NextService]_vars

(***************************************************************************)
(* Properties of the services (SpecService).                               *)
(***************************************************************************)
\* the text of the response when there is one
SvcText == svcResp.v.s

\* the external call failed, or its text parses neither directly nor cleaned
SvcUnparsed ==
  \/ svcResp.k = "reject"
  \/ ~Truthy(svcResp.v)
  \/ /\ ~JSONparse(SvcText).ok
     /\ ~JSONparse(Trim(StripFences(SvcText))).ok

\* the payload is wrapped in a fenced code block: three backticks with an
\* optional language tag before it, three backticks after it
SvcFenced ==
  /\ svcPayload # JUndef
  /\ svcOpen \in {FenceJson \o <<"\n">>, FenceJson, Fence \o <<"\n">>, FenceJs \o <<"\n">>}
  /\ svcClose \in FencedClosers

\* C9 (first pass): a text that parses directly is returned as parsed, by the
\* one call of JSON.parse.
C9_DirectParse ==
  (svcOp = "safeParseJSON" /\ Truthy(svcResp.v) /\ JSONparse(SvcText).ok) =>
    /\ svcResult = Return(JSONparse(SvcText).val)
    /\ parsePasses(svcResp.v) = 1

\* C9 (both passes fail): the result is null, after two calls of JSON.parse,
\* and nothing is thrown.
C9_NullOnFailure ==
  (svcOp = "safeParseJSON" /\ SvcUnparsed) =>
    /\ svcResult = Return(JNull)
    /\ parsePasses(svcResp.v) <= 2

\* C9: safeParseJSON parses directly, else strips the surrounding fence
\* markers and retries once; every valid payload wrapped in a fenced code
\* block (optional language tag) comes back as the payload's value; when both
\* passes fail the result is null.
C9_FencedPayloadParsed ==
  /\ C9_DirectParse
  /\ C9_NullOnFailure
  /\ (svcOp = "safeParseJSON" /\ SvcFenced) => svcResult = Return(svcPayload)

\* C5: generateKnowledgeGraph never rejects; its result has sequences as nodes
\* and links, and is the empty graph when the call failed or the text could
\* not be parsed.
C5_GraphNeverRejects ==
  svcOp = "generateKnowledgeGraph" =>
    /\ svcResult.k = "return"
    /\ IsArray(Get(svcResult.v, KNodes))
    /\ IsArray(Get(svcResult.v, KLinks))
    /\ SvcUnparsed => svcResult = Return(EmptyGraph)

C5_Witness ==
  /\ svcOp = "generateKnowledgeGraph"
  /\ svcResp.k = "reject"
  /\ svcResult = Return(EmptyGraph)

\* C6: generateExam never rejects; its result is a sequence, the empty one
\* when the call failed, the text could not be parsed or the parsed value is
\* no sequence.
C6_ExamNeverRejects ==
  svcOp = "generateExam" =>
    /\ svcResult.k = "return"
    /\ IsArray(svcResult.v)
    /\ SvcUnparsed => svcResult = Return(JArr(<<>>))
    /\ (svcPayload # JUndef /\ ~IsArray(svcPayload)) => svcResult = Return(JArr(<<>>))

C6_Witness ==
  /\ svcOp = "generateExam"
  /\ svcOpen = <<>>
  /\ svcClose = <<>>
  /\ svcPayload = JObj(<<>>)
  /\ svcResult = Return(JArr(<<>>))

\* C10: for a parsed structure response, parseSyllabus returns the structure
\* with the defaults: a missing title is "Untitled Course", a missing
\* description the empty text, a missing or non-sequence modules field the
\* empty sequence; it does not throw.
C10_StructureDefaults ==
  (/\ svcOp = "parseSyllabus"
   /\ svcPayload # JUndef
   /\ Truthy(svcPayload)
   /\ safeParseJSON(svcResp.v) = svcPayload) =>
    /\ svcResult.k = "return"
    /\ Get(svcPayload, KTitle) = JUndef =>
         Get(svcResult.v, KTitle) = JStr(UntitledCourse)
    /\ Get(svcPayload, KDescription) = JUndef =>
         Get(svcResult.v, KDescription) = JStr(<<>>)
    /\ ~IsArray(Get(svcPayload, KModules)) =>
         Get(svcResult.v, KModules) = JArr(<<>>)
    /\ IsArray(Get(svcPayload, KModules)) =>
         Get(svcResult.v, KModules) = Get(svcPayload, KModules)

C10_Witness ==
  /\ svcOp = "parseSyllabus"
  /\ svcPayload = MkObj(<< <<KDescription, JStr(<<"D">>)>>, <<KModules, JStr(<<"m">>)>> >>)
  /\ svcOpen = FenceJson \o <<"\n">>
  /\ svcClose = <<"\n">> \o Fence
  /\ svcResult = Return(JObj(<< <<KTitle, JStr(UntitledCourse)>>,
                                <<KDescription, JStr(<<"D">>)>>,
                                <<KModules, JArr(<<>>)>> >>))

(***************************************************************************)
(* App: upload (SpecUpload), module selection and depth change (SpecLesson). *)
(***************************************************************************)
KTopics == <<"t", "o", "p", "i", "c", "s">>
ModuleOf(title) == JObj(<< <<KTitle, JStr(title)>>, <<KTopics, JArr(<<JStr(<<"t">>)>>)>> >>)
CoursePayload ==
  JObj(<< <<KTitle, JStr(<<"T">>)>>,
          <<KModules, JArr(<<ModuleOf(<<"A">>), ModuleOf(<<"B">>)>>)>> >>)
GraphPayload ==
  JObj(<< <<KNodes, JArr(<<NodeA>>)>>, <<KLinks, JArr(<<LinkAB>>)>> >>)

\* the outcomes of the structure request
StructureResponses ==
  { Reject,
    Resolve(JUndef),
    Resolve(JStr(<<>>)),
    Resolve(JStr(<<"{", "\"", "t", "i", "t", "l", "e", "\"", ":">>)),
    Resolve(JStr(FenceJson \o <<"\n">> \o <<"{", "\"", "t", "i", "t", "l", "e", "\"", ":">> \o <<"\n">> \o Fence)),
    Resolve(JStr(Stringify(CoursePayload))),
    Resolve(JStr(FenceJson \o <<"\n">> \o Stringify(CoursePayload) \o <<"\n">> \o Fence)),
    Resolve(JStr(Stringify(JObj(<<>>)))) }

\* the outcomes of the graph request
GraphResponses ==
  { Reject, Resolve(JUndef), Resolve(JStr(Stringify(GraphPayload))) }

\* the upload screen is rendered (it holds the file input)
UploadScreen == structure = JNull /\ ~loadingStructure
\* the course screen is rendered (sidebar, depth buttons, exam button)
CourseScreen == structure # JNull /\ ~loadingStructure

\* handleFileUpload up to the first await
UploadStart ==
  /\ UploadScreen
  /\ uploadPc = "idle"
  /\ uploads < MaxUploads
  /\ uploads' = uploads + 1
  /\ loadingStructure' = TRUE
  /\ uploadPc' = "reading"
  /\ \E file \in Files : uploadFile' = file
  /\ UNCHANGED <<syllabusFile, structure, structResp, alerts, graphPending, graphData>>
  /\ UNCHANGED <<lessonVars, svcVars, examVars, graphVars, sessionVars>>

\* fileToGenerativePart resolves: the file is kept and parseSyllabus is called
FileRead ==
  /\ uploadPc = "reading"
  /\ syllabusFile' = Base64Of(uploadFile)
  /\ uploadPc' = "parsing"
  /\ UNCHANGED <<structure, loadingStructure, uploadFile, uploads, structResp, alerts,
                 graphPending, graphData>>
  /\ UNCHANGED <<lessonVars, svcVars, examVars, graphVars, sessionVars>>

\* fileToGenerativePart rejects: catch and finally
FileReadFailed ==
  /\ uploadPc = "reading"
  /\ alerts' = alerts + 1
  /\ loadingStructure' = FALSE
  /\ uploadPc' = "idle"
  /\ uploadFile' = ""
  /\ UNCHANGED <<syllabusFile, structure, uploads, structResp, graphPending, graphData>>
  /\ UNCHANGED <<lessonVars, svcVars, examVars, graphVars, sessionVars>>

\* the structure request ends in resp: no alert in the catch
StructureArrivesSilently(resp) ==
  /\ uploadPc = "parsing"
  /\ structResp' = resp
  /\ LET struct == parseSyllabus(resp) IN
     IF struct.k = "return"
     THEN /\ structure' = struct.v
          /\ graphPending' = TRUE
          /\ alerts' = alerts
     ELSE /\ alerts' = alerts
          /\ UNCHANGED <<structure, graphPending>>
  /\ loadingStructure' = FALSE
  /\ uploadPc' = "idle"
  /\ uploadFile' = ""
  /\ UNCHANGED <<syllabusFile, uploads, graphData>>
  /\ UNCHANGED <<lessonVars, svcVars, examVars, graphVars, sessionVars>>

\* the structure request ends in resp: the graph is awaited before finally
StructureArrivesAwaitingGraph(resp) ==
  /\ uploadPc = "parsing"
  /\ structResp' = resp
  /\ LET struct == parseSyllabus(resp) IN
     IF struct.k = "return"
     THEN /\ structure' = struct.v
          /\ graphPending' = TRUE
          /\ alerts' = alerts
          /\ loadingStructure' = TRUE
     ELSE /\ alerts' = alerts + 1
          /\ loadingStructure' = FALSE
          /\ UNCHANGED <<structure, graphPending>>
  /\ uploadPc' = "idle"
  /\ uploadFile' = ""
  /\ UNCHANGED <<syllabusFile, uploads, graphData>>
  /\ UNCHANGED <<lessonVars, svcVars, examVars, graphVars, sessionVars>>

\* the structure request ends in resp: the rest of handleFileUpload
StructureArrives(resp) ==
  /\ uploadPc = "parsing"
  /\ structResp' = resp
  /\ LET struct == parseSyllabus(resp) IN
     IF struct.k = "return"
     THEN /\ structure' = struct.v
          /\ graphPending' = TRUE
          /\ alerts' = alerts
     ELSE /\ alerts' = alerts + 1
          /\ UNCHANGED <<structure, graphPending>>
  /\ loadingStructure' = FALSE
  /\ uploadPc' = "idle"
  /\ uploadFile' = ""
  /\ UNCHANGED <<syllabusFile, uploads, graphData>>
  /\ UNCHANGED <<lessonVars, svcVars, examVars, graphVars, sessionVars>>

StructureResponse == \E resp \in StructureResponses : StructureArrives(resp)

\* the graph request ends: generateKnowledgeGraph(base64).then(setGraphData)
GraphResponse ==
  /\ graphPending
  /\ \E resp \in GraphResponses :
       /\ generateKnowledgeGraph(resp).k = "return"
       /\ graphData' = generateKnowledgeGraph(resp).v
  /\ graphPending' = FALSE
  /\ UNCHANGED <<syllabusFile, structure, loadingStructure, uploadPc, uploadFile, uploads,
                 structResp, alerts>>
  /\ UNCHANGED <<lessonVars, svcVars, examVars, graphVars, sessionVars>>

\* a generateLessonContent call for module m at depth d, made by origin
NewRequest(m, d, origin) ==
  [ mod |-> Get(m, KTitle), depth |-> d, origin |-> origin,
    overlap |-> Len(lessonReqs) > 0 /\ lessonReqs[Len(lessonReqs)].status = "pending",
    status |-> "pending" ]

\* handleModuleSelect up to the await
SelectModule ==
  /\ CourseScreen
  /\ Len(lessonReqs) < MaxLessonRequests
  /\ \E i \in 1..Len(Get(structure, KModules).a) :
       LET m == Get(structure, KModules).a[i] IN
       /\ activeModule' = m
       /\ IF syllabusFile = JNull
          THEN /\ loadingContent' = FALSE
               /\ lessonReqs' = lessonReqs
          ELSE /\ loadingContent' = TRUE
               /\ lessonReqs' = Append(lessonReqs, NewRequest(m, contentDepth, "select"))
  /\ UNCHANGED <<contentDepth, lessonContent>>
  /\ UNCHANGED <<uploadVars, svcVars, examVars, graphVars, sessionVars>>

\* a depth button is clicked and the effect on contentDepth runs
ChangeDepth ==
  /\ CourseScreen
  /\ Len(lessonReqs) < MaxLessonRequests
  /\ \E d \in Depths \ {contentDepth} :
       /\ contentDepth' = d
       /\ IF activeModule # JNull /\ syllabusFile # JNull
          THEN /\ loadingContent' = TRUE
               /\ lessonReqs' = Append(lessonReqs, NewRequest(activeModule, d, "depth"))
          ELSE UNCHANGED <<loadingContent, lessonReqs>>
  /\ UNCHANGED <<activeModule, lessonContent>>
  /\ UNCHANGED <<uploadVars, svcVars, examVars, graphVars, sessionVars>>

\* request i ends with outcome "ok" (a text), "empty" (no text) or "rejected":
\* setLessonContent, then setLoadingContent(false)
LessonArrives(i, outcome) ==
  /\ lessonReqs[i].status = "pending"
  /\ lessonReqs' = [lessonReqs EXCEPT ![i].status = outcome]
  /\ lessonContent' = CASE outcome = "ok" -> Lesson(i)
                        [] outcome = "empty" -> FailedLesson
                        [] OTHER -> lessonContent
  /\ loadingContent' = FALSE
  /\ UNCHANGED <<activeModule, contentDepth>>
  /\ UNCHANGED <<uploadVars, svcVars, examVars, graphVars, sessionVars>>

LessonResponse ==
  \E i \in 1..Len(lessonReqs) : \E outcome \in {"ok", "empty", "rejected"} :
    LessonArrives(i, outcome)

\* the upload, from the state after construction
NextUpload ==
  \/ UploadStart
  \/ FileRead
  \/ FileReadFailed
  \/ StructureResponse
  \/ GraphResponse

InitUpload == AppInit /\ SvcIdle /\ ExamInit /\ GraphInit /\ SessionInit

SpecUpload == InitUpload /\ [][NextUpload]_vars

\* the state once a first upload has succeeded and the graph has arrived
CourseLoaded ==
  /\ syllabusFile = Base64Of("a.pdf")
  /\ structure = parseSyllabus(Resolve(JStr(Stringify(CoursePayload)))).v
  /\ loadingStructure = FALSE
  /\ uploadPc = "idle"
  /\ uploadFile = ""
  /\ uploads = 1
  /\ structResp = Resolve(JStr(Stringify(CoursePayload)))
  /\ alerts = 0
  /\ graphPending = FALSE
  /\ graphData = generateKnowledgeGraph(Resolve(JStr(Stringify(GraphPayload)))).v

\* the lessons of a loaded course
NextLesson ==
  \/ SelectModule
  \/ ChangeDepth
  \/ LessonResponse

InitLesson ==
  /\ CourseLoaded
  /\ activeModule = JNull
  /\ contentDepth = StandardDepth
  /\ lessonContent = NoLesson
  /\ loadingContent = FALSE
  /\ lessonReqs = <<>>
  /\ SvcIdle /\ ExamInit /\ GraphInit /\ SessionInit

SpecLesson == InitLesson /\ [][NextLesson]_vars

(***************************************************************************)
(* Properties of the upload (SpecUpload) and of the lessons (SpecLesson).  *)
(***************************************************************************)
\* the structure request failed: the call rejected, the text is missing or
\* empty, or it parses neither directly nor after the fence cleanup
ExtractionFailed(resp) ==
  \/ resp.k = "reject"
  \/ ~Truthy(resp.v)
  \/ /\ ~JSONparse(resp.v.s).ok
     /\ ~JSONparse(Trim(StripFences(resp.v.s))).ok

\* C4: when structure extraction has failed, structure is unset, every upload
\* started has ended in an alert, loadingStructure is false so that the
\* upload screen is shown again, and no graph request was started.
C4_ExtractionFailure ==
  (uploadPc = "idle" /\ structResp # JUndef /\ ExtractionFailed(structResp)) =>
    /\ structure = JNull
    /\ alerts = uploads
    /\ ~loadingStructure
    /\ UploadScreen
    /\ ~graphPending
    /\ graphData = JNull

C4_Witness ==
  /\ uploadPc = "idle"
  /\ structResp = Resolve(JStr(FenceJson \o <<"\n">> \o <<"{", "\"", "t", "i", "t", "l", "e", "\"", ":">> \o <<"\n">> \o Fence))
  /\ uploads = 1
  /\ alerts = 1
  /\ UploadScreen

\* C16: the graph fetch is fire-and-forget: the step that sets structure also
\* clears loadingStructure and leaves the graph request in flight with
\* graphData unset; while the request is in flight the course screen is
\* shown; the step that ends the request sets graphData and touches neither
\* structure nor loadingStructure.
C16_GraphFireAndForget ==
  [][/\ (structure = JNull /\ structure' # JNull) =>
          (~loadingStructure' /\ graphPending' /\ graphData' = JNull)
     /\ graphPending' => CourseScreen'
     /\ (graphPending /\ ~graphPending') =>
          (graphData' # JNull /\ structure' = structure /\ loadingStructure' = loadingStructure)
     /\ graphData' # graphData => graphPending]_vars

\* the course is usable and the graph has not arrived yet
C16_Witness ==
  /\ structure # JNull
  /\ ~loadingStructure
  /\ uploadPc = "idle"
  /\ graphPending
  /\ graphData = JNull

\* the graph has arrived after the course became usable
C16_GraphArrived ==
  /\ CourseScreen
  /\ ~graphPending
  /\ graphData # JNull

\* C1: two consecutive depth changes of one module, the second made while the
\* request of the first was in flight: once both requests (and all others)
\* have resolved, lessonContent is the result of the second, whichever
\* response arrived first.
C1_LastDepthChangeWins ==
  \A i \in 1..(Len(lessonReqs) - 1) :
    (/\ i + 1 = Len(lessonReqs)
     /\ lessonReqs[i].origin = "depth"
     /\ lessonReqs[i + 1].origin = "depth"
     /\ lessonReqs[i + 1].overlap
     /\ lessonReqs[i].mod = lessonReqs[i + 1].mod
     /\ lessonReqs[i].status = "ok"
     /\ lessonReqs[i + 1].status = "ok"
     /\ \A j \in 1..Len(lessonReqs) : lessonReqs[j].status # "pending") =>
      lessonContent = Lesson(i + 1)

\* the rejected lesson requests whose rejection no handler receives: the
\* try/catch of handleModuleSelect catches its own, the then/finally chain
\* of the depth-change effect has no catch and passes the rejection on
UnhandledRejections ==
  {i \in 1..Len(lessonReqs) :
     lessonReqs[i].status = "rejected" /\ lessonReqs[i].origin = "depth"}

\* C17: a failure of a non-structure request is handled by the operation that
\* issued it: when lesson generation rejects, after a module selection or
\* after a depth change, no rejection is left unhandled, the loading flag is
\* false once no request is pending, and structure stays set.
C17_FailuresHandled ==
  /\ UnhandledRejections = {}
  /\ (\A j \in 1..Len(lessonReqs) : lessonReqs[j].status # "pending") => ~loadingContent
  /\ structure # JNull

(***************************************************************************)
(* The exam: startExam in App and the ExamModal component (SpecExam).      *)
(***************************************************************************)
MaxQuestions == 2
MaxQuestionId == 2
MaxExamPending == 1

\* the option indexes of a question (q.options has two entries)
OptionIndexes == {0, 1}

\* an ExamQuestion: its id and the index of its correct option
CorrectOf(id) == id % 2
QuestionOf(id) == [id |-> id, correctAnswerIndex |-> CorrectOf(id)]
Questions == {QuestionOf(id) : id \in 1..MaxQuestionId}

\* the sequences generateExam resolves to
QuestionLists == UNION {[1..n -> Questions] : n \in 0..MaxQuestions}

\* Object.keys(answers).length
AnswerCount == Cardinality(DOMAIN answers)

\* the disabled attribute of the submit button
SubmitDisabled == AnswerCount # Len(examQuestions)

\* calculateScore: the loop over the questions from position i on
RECURSIVE ScoreFrom(_)
ScoreFrom(i) ==
  IF i > Len(examQuestions) THEN 0
  ELSE (IF /\ examQuestions[i].id \in DOMAIN answers
           /\ answers[examQuestions[i].id] = examQuestions[i].correctAnswerIndex
        THEN 1 ELSE 0) + ScoreFrom(i + 1)

\* calculateScore counting each answered question once
calculateScoreByAnswer ==
  Cardinality({id \in DOMAIN answers :
                 \E i \in 1..Len(examQuestions) :
                   /\ examQuestions[i].id = id
                   /\ answers[id] = examQuestions[i].correctAnswerIndex})

calculateScore == ScoreFrom(1)

\* the score line of the footer: <<score, number of questions>> once
\* submitted, <<>> otherwise ("Answer all questions to submit")
ScoreShown ==
  IF showExam /\ submitted THEN <<calculateScore, Len(examQuestions)>> ELSE <<>>

\* startExam up to the await
StartExam ==
  /\ CourseScreen
  /\ activeModule # JNull
  /\ syllabusFile # JNull
  /\ examPending < MaxExamPending
  /\ examPending' = examPending + 1
  /\ UNCHANGED <<showExam, examQuestions, answers, submitted, lastSelect>>
  /\ UNCHANGED <<appVars, svcVars, graphVars, sessionVars>>

\* generateExam resolves: setExamQuestions, setShowExam(true)
ExamArrives ==
  /\ examPending > 0
  /\ examPending' = examPending - 1
  /\ \E questions \in QuestionLists : examQuestions' = questions
  /\ showExam' = TRUE
  /\ UNCHANGED <<answers, submitted, lastSelect>>
  /\ UNCHANGED <<appVars, svcVars, graphVars, sessionVars>>

\* handleSelect keeping the first selection of a question
handleSelectFirstWins(qId, optionIdx) ==
  /\ IF submitted THEN answers' = answers
     ELSE answers' = answers @@ (qId :> optionIdx)
  /\ UNCHANGED <<showExam, examQuestions, examPending, submitted>>
  /\ UNCHANGED <<appVars, svcVars, graphVars, sessionVars>>

\* handleSelect without the submitted check
handleSelectAlways(qId, optionIdx) ==
  /\ answers' = (qId :> optionIdx) @@ answers
  /\ UNCHANGED <<showExam, examQuestions, examPending, submitted>>
  /\ UNCHANGED <<appVars, svcVars, graphVars, sessionVars>>

handleSelect(qId, optionIdx) ==
  /\ IF submitted THEN answers' = answers
     ELSE answers' = (qId :> optionIdx) @@ answers
  /\ UNCHANGED <<showExam, examQuestions, examPending, submitted>>
  /\ UNCHANGED <<appVars, svcVars, graphVars, sessionVars>>

\* an option button of a question of the list is clicked
SelectOption ==
  /\ showExam
  /\ \E i \in 1..Len(examQuestions) : \E optionIdx \in OptionIndexes :
       /\ handleSelect(examQuestions[i].id, optionIdx)
       /\ lastSelect' = <<examQuestions[i].id, optionIdx>>

\* the submit button is clicked
SubmitExam ==
  /\ showExam
  /\ ~submitted
  /\ ~SubmitDisabled
  /\ submitted' = TRUE
  /\ UNCHANGED <<showExam, examQuestions, examPending, answers, lastSelect>>
  /\ UNCHANGED <<appVars, svcVars, graphVars, sessionVars>>

\* onClose: the X of the header or the Close button
CloseExam ==
  /\ showExam
  /\ showExam' = FALSE
  /\ UNCHANGED <<examQuestions, examPending, answers, submitted, lastSelect>>
  /\ UNCHANGED <<appVars, svcVars, graphVars, sessionVars>>

NextExam ==
  \/ StartExam
  \/ ExamArrives
  \/ SelectOption
  \/ SubmitExam
  \/ CloseExam

\* a course is loaded and the lesson of module A is shown
InitExam ==
  /\ CourseLoaded
  /\ activeModule = ModuleOf(<<"A">>)
  /\ contentDepth = StandardDepth
  /\ lessonContent = Lesson(1)
  /\ loadingContent = FALSE
  /\ lessonReqs = << [ mod |-> JStr(<<"A">>), depth |-> StandardDepth, origin |-> "select",
                       overlap |-> FALSE, status |-> "ok" ] >>
  /\ ExamInit /\ SvcIdle /\ GraphInit /\ SessionInit

SpecExam == InitExam /\ [][NextExam]_vars

(***************************************************************************)
(* Properties of the exam (SpecExam).                                      *)
(***************************************************************************)
\* every question of the current list has a selected option
AllAnswered == \A i \in 1..Len(examQuestions) : examQuestions[i].id \in DOMAIN answers

\* C2: the exam goes from in-progress to submitted only in a state where
\* every question of the current list has a selected option.
C2_SubmitOnlyWhenAllAnswered == [][(~submitted /\ submitted') => AllAnswered]_vars

\* C7: with an empty questions sequence the exam cannot be submitted.
C7_NoSubmitWithoutQuestions ==
  [][(showExam /\ examQuestions = <<>>) => (submitted' = submitted)]_vars

\* C3: once submitted, the score shown is the number of questions whose
\* selected option is the correct one, over the number of questions.
C3_ScoreCountsCorrect ==
  (showExam /\ submitted) =>
    ScoreShown =
      << Cardinality({i \in 1..Len(examQuestions) :
                        /\ examQuestions[i].id \in DOMAIN answers
                        /\ answers[examQuestions[i].id] = examQuestions[i].correctAnswerIndex}),
         Len(examQuestions) >>

\* two questions, one answered correctly and one incorrectly: 1 / 2
C3_Witness ==
  /\ showExam
  /\ submitted
  /\ examQuestions = <<QuestionOf(1), QuestionOf(2)>>
  /\ answers = (1 :> CorrectOf(1)) @@ (2 :> 1 - CorrectOf(2))
  /\ ScoreShown = <<1, 2>>

\* C13: once submitted, the exam stays submitted and answers is frozen: no
\* later step (a select on any question and option included) changes answers
\* or the submitted flag, and the score shown for the same questions stays
\* the same.
C13_SubmittedIsTerminal ==
  [][submitted =>
       /\ submitted'
       /\ answers' = answers
       /\ (examQuestions' = examQuestions /\ showExam' = showExam) => ScoreShown' = ScoreShown]_vars

\* an option was clicked after the submission and its selection was ignored
C13_Witness ==
  /\ showExam
  /\ submitted
  /\ lastSelect # <<>>
  /\ lastSelect[1] \in DOMAIN answers
  /\ answers[lastSelect[1]] # lastSelect[2]

\* C20: while the exam is in progress answers holds one option index per
\* question id, the value stored for the question selected last is the
\* option of that select, and a select leaves the selections of all other
\* questions unchanged.
C20_LastSelectionStored ==
  /\ [](\A q \in DOMAIN answers : answers[q] \in OptionIndexes)
  /\ []((~submitted /\ lastSelect # <<>>) =>
          (lastSelect[1] \in DOMAIN answers /\ answers[lastSelect[1]] = lastSelect[2]))
  /\ [][answers' # answers =>
          /\ DOMAIN answers' = DOMAIN answers \cup {lastSelect'[1]}
          /\ \A q \in DOMAIN answers \ {lastSelect'[1]} : answers'[q] = answers[q]]_vars

\* both questions have a selection and question 1 was selected last
C20_Witness ==
  /\ showExam
  /\ ~submitted
  /\ examQuestions = <<QuestionOf(1), QuestionOf(2)>>
  /\ lastSelect = <<1, 1>>
  /\ answers = (1 :> 1) @@ (2 :> 0)

(***************************************************************************)
(* The KnowledgeGraph component: its effect on the data prop (SpecGraph).  *)
(***************************************************************************)
MaxSimulations == 2

KNode(id) == [id |-> id]
KLink(source, target) == [source |-> source, target |-> target]

\* the data props given to the component
GraphInputs ==
  { [nodes |-> <<>>, links |-> <<>>],
    [nodes |-> <<>>, links |-> <<KLink("a", "b")>>],
    [nodes |-> <<KNode("a")>>, links |-> <<>>],
    [nodes |-> <<KNode("a")>>, links |-> <<KLink("a", "a")>>],
    [nodes |-> <<KNode("a")>>, links |-> <<KLink("a", "b")>>],
    [nodes |-> <<KNode("a"), KNode("b")>>, links |-> <<KLink("a", "b")>>],
    [nodes |-> <<KNode("a"), KNode("b")>>, links |-> <<KLink("a", "b"), KLink("a", "b")>>],
    [nodes |-> <<KNode("a"), KNode("b")>>, links |-> <<KLink("c", "b"), KLink("a", "b")>>] }

NodeIdsOf(nodes) == {nodes[i].id : i \in 1..Len(nodes)}

\* the links whose source or target is the id of no node
Dangling(nodes, links) ==
  {i \in 1..Len(links) :
     links[i].source \notin NodeIdsOf(nodes) \/ links[i].target \notin NodeIdsOf(nodes)}

\* the links the effect hands to d3.forceLink: a copy of every link of the data
LinksForLayout(data) == data.links

\* the copies of the nodes given to d3.forceSimulation, which places node j
\* at its own initial position; fx is <<>> for null (free) or <<p>> (pinned)
SimNodes(nodes) ==
  [j \in 1..Len(nodes) |-> [id |-> nodes[j].id, x |-> j, fx |-> <<>>]]

\* the simulation of one effect run: created running, alpha target 0
Simulation(data) ==
  [nodes |-> SimNodes(data.nodes), links |-> LinksForLayout(data),
   alphaTarget |-> 0, running |-> TRUE]

\* The effect runs for a new data prop (mount or change of data).  With no
\* node it returns at once.  Otherwise it clears the svg, copies nodes and
\* links and builds the simulation; registering the link force resolves every
\* link endpoint by id, and d3 throws on an id that no node has, which ends
\* the effect before anything is drawn.
GraphEffect ==
  /\ ~graphCrashed
  /\ \E data \in GraphInputs :
       /\ graphProp' = data
       /\ IF Len(data.nodes) = 0
          THEN UNCHANGED <<svgDrawn, sims, graphCrashed>>
          ELSE /\ Len(sims) < MaxSimulations
               /\ sims' = Append(sims, Simulation(data))
               /\ IF Dangling(data.nodes, LinksForLayout(data)) # {}
                  THEN /\ svgDrawn' = <<>>
                       /\ graphCrashed' = TRUE
                  ELSE /\ svgDrawn' = <<[lines |-> LinksForLayout(data), circles |-> data.nodes,
                                         labels |-> data.nodes]>>
                       /\ graphCrashed' = FALSE
  /\ UNCHANGED drags
  /\ UNCHANGED <<appVars, svcVars, examVars, sessionVars>>

\* the graph modal is closed: the component unmounts, its svg goes; the
\* effect has no cleanup
GraphClose ==
  /\ ~graphCrashed
  /\ graphProp # JNull
  /\ graphProp' = JNull
  /\ svgDrawn' = <<>>
  /\ UNCHANGED <<sims, graphCrashed, drags>>
  /\ UNCHANGED <<appVars, svcVars, examVars, sessionVars>>

NextGraph ==
  \/ GraphEffect
  \/ GraphClose

InitGraph == GraphInit /\ AppInit /\ SvcIdle /\ ExamInit /\ SessionInit

SpecGraph == InitGraph /\ [][NextGraph]_vars

\* C8: every edge whose source or target is the id of no node is dropped
\* before the link force is built: no simulation holds such an edge, and no
\* edge endpoint is resolved to a missing node.
C8_DanglingEdgesDropped ==
  /\ \A i \in 1..Len(sims) : Dangling(sims[i].nodes, sims[i].links) = {}
  /\ ~graphCrashed

\* C12: whenever the data of the mounted graph has zero nodes, nothing is
\* drawn on the surface (no lines, circles or labels remain) and the effect
\* run for that data started no simulation.
C12_EmptyGraphRendersNothing ==
  /\ [][(graphProp' # JNull /\ graphProp' # graphProp /\ Len(graphProp'.nodes) = 0) =>
          sims' = sims]_vars
  /\ []((graphProp # JNull /\ Len(graphProp.nodes) = 0) => svgDrawn = <<>>)

(***************************************************************************)
(* The drag behaviour of the nodes (SpecDrag).                             *)
(***************************************************************************)
\* the pointers (mouse, touches) that can hold a gesture, and the positions
Pointers == {1, 2}
Points == {1, 2, 3}

\* simulation.alphaTarget(0.3), in tenths
AlphaTargetDrag == 3

\* a gesture: the pointer, the simulation of its drag behaviour, and the
\* index of its subject among the nodes
Gesture(pointer, sim, node) == [pointer |-> pointer, sim |-> sim, node |-> node]
GesturesOn(i, j) == {g \in drags : g.sim = i /\ g.node = j}

\* event.active: the gestures of the same behaviour other than g
Active(g) == Cardinality({h \in drags : h.sim = g.sim} \ {g})

Pinned(i, j) == sims[i].nodes[j].fx # <<>>

dragstarted(g) ==
  LET sim == sims[g.sim]
      reheated == IF Active(g) = 0
                  THEN [sim EXCEPT !.alphaTarget = AlphaTargetDrag, !.running = TRUE]
                  ELSE sim
  IN sims' = [sims EXCEPT ![g.sim] =
                [reheated EXCEPT !.nodes[g.node].fx = <<sim.nodes[g.node].x>>]]

dragged(g, p) ==
  sims' = [sims EXCEPT ![g.sim].nodes[g.node].fx = <<p>>]

\* dragended without the event.active check
dragendedAlways(g) ==
  LET sim == sims[g.sim]
      cooled == [sim EXCEPT !.alphaTarget = 0]
  IN sims' = [sims EXCEPT ![g.sim] = [cooled EXCEPT !.nodes[g.node].fx = <<>>]]

dragended(g) ==
  LET sim == sims[g.sim]
      cooled == IF Active(g) = 0 THEN [sim EXCEPT !.alphaTarget = 0] ELSE sim
  IN sims' = [sims EXCEPT ![g.sim] = [cooled EXCEPT !.nodes[g.node].fx = <<>>]]

\* a free pointer goes down on a circle of the drawing
DragStart ==
  /\ ~graphCrashed
  /\ svgDrawn # <<>>
  /\ \E pointer \in Pointers : \E j \in 1..Len(sims[Len(sims)].nodes) :
       LET g == Gesture(pointer, Len(sims), j) IN
       /\ \A h \in drags : h.pointer # pointer
       /\ dragstarted(g)
       /\ drags' = drags \cup {g}
  /\ UNCHANGED <<graphProp, svgDrawn, graphCrashed>>
  /\ UNCHANGED <<appVars, svcVars, examVars, sessionVars>>

\* the pointer of a gesture moves to p
DragMove ==
  /\ \E g \in drags : \E p \in Points : dragged(g, p)
  /\ UNCHANGED <<graphProp, svgDrawn, graphCrashed, drags>>
  /\ UNCHANGED <<appVars, svcVars, examVars, sessionVars>>

\* the pointer of a gesture goes up
DragEnd ==
  /\ \E g \in drags :
       /\ drags' = drags \ {g}
       /\ dragended(g)
  /\ UNCHANGED <<graphProp, svgDrawn, graphCrashed>>
  /\ UNCHANGED <<appVars, svcVars, examVars, sessionVars>>

\* a tick of a running simulation: a pinned node is put at its fx, a free
\* node is moved by the forces
Tick ==
  /\ \E i \in 1..Len(sims) :
       /\ sims[i].running
       /\ \E xs \in [1..Len(sims[i].nodes) -> Points] :
            sims' = [sims EXCEPT ![i].nodes =
                       [j \in 1..Len(sims[i].nodes) |->
                          [sims[i].nodes[j] EXCEPT !.x =
                             IF sims[i].nodes[j].fx # <<>> THEN sims[i].nodes[j].fx[1]
                             ELSE xs[j]]]]
  /\ UNCHANGED <<graphProp, svgDrawn, graphCrashed, drags>>
  /\ UNCHANGED <<appVars, svcVars, examVars, sessionVars>>

\* a simulation whose alpha target is 0 cools down and stops its timer
SimStops ==
  /\ \E i \in 1..Len(sims) :
       /\ sims[i].running
       /\ sims[i].alphaTarget = 0
       /\ sims' = [sims EXCEPT ![i].running = FALSE]
  /\ UNCHANGED <<graphProp, svgDrawn, graphCrashed, drags>>
  /\ UNCHANGED <<appVars, svcVars, examVars, sessionVars>>

NextDrag ==
  \/ DragStart
  \/ DragMove
  \/ DragEnd
  \/ Tick
  \/ SimStops

\* the graph of two linked nodes has been drawn
TwoNodeGraph ==
  [nodes |-> <<KNode("a"), KNode("b")>>, links |-> <<KLink("a", "b")>>]

InitDrag ==
  /\ graphProp = TwoNodeGraph
  /\ svgDrawn = <<[lines |-> TwoNodeGraph.links, circles |-> TwoNodeGraph.nodes,
                   labels |-> TwoNodeGraph.nodes]>>
  /\ sims = <<Simulation(TwoNodeGraph)>>
  /\ graphCrashed = FALSE
  /\ drags = {}
  /\ AppInit /\ SvcIdle /\ ExamInit /\ SessionInit

SpecDrag == InitDrag /\ [][NextDrag]_vars

Dragged(i, j) == GesturesOn(i, j) # {}
NodesOfSims == UNION {{<<i, j>> : j \in 1..Len(sims[i].nodes)} : i \in 1..Len(sims)}

\* C19 as stated: a node is pinned exactly while it is being dragged.
C19_PinnedExactlyWhileDragged ==
  \A n \in NodesOfSims : Pinned(n[1], n[2]) <=> Dragged(n[1], n[2])

\* C19: drag-start pins the node at its current position and, with no other
\* drag active, sets the alpha target to 0.3 and restarts the simulation;
\* a drag move puts the pinned position at the pointer; drag-end clears the
\* pinned position and, with no other drag active, sets the alpha target to
\* 0.  A node is pinned only while it is dragged and stays pinned until a
\* drag on it ends.
C19_DragStateMachine ==
  /\ [](\A i \in 1..Len(sims) :
          /\ sims[i].alphaTarget = IF \E g \in drags : g.sim = i THEN AlphaTargetDrag ELSE 0
          /\ (\E g \in drags : g.sim = i) => sims[i].running)
  /\ [](\A n \in NodesOfSims : Pinned(n[1], n[2]) => Dragged(n[1], n[2]))
  /\ [][/\ \A g \in drags' \ drags :
             sims'[g.sim].nodes[g.node].fx = <<sims[g.sim].nodes[g.node].x>>
        /\ \A g \in drags \ drags' : sims'[g.sim].nodes[g.node].fx = <<>>
        /\ \A n \in NodesOfSims :
             LET fx == sims[n[1]].nodes[n[2]].fx
                 fxNew == sims'[n[1]].nodes[n[2]].fx
             IN /\ (fx # <<>> /\ fxNew = <<>>) =>
                     \E g \in drags \ drags' : g.sim = n[1] /\ g.node = n[2]
                /\ (drags' = drags /\ fxNew # fx) =>
                     (Dragged(n[1], n[2]) /\ fxNew # <<>>)]_vars

\* two gestures on two nodes: both pinned, node 1 moved to point 3 while
\* the simulation runs at the raised alpha target
C19_Witness ==
  /\ drags = {Gesture(1, 1, 1), Gesture(2, 1, 2)}
  /\ sims[1].alphaTarget = AlphaTargetDrag
  /\ sims[1].running
  /\ sims[1].nodes[1].fx = <<3>>
  /\ sims[1].nodes[1].x = 3
  /\ sims[1].nodes[2].fx # <<>>

(***************************************************************************)
(* decodeAudioData: base64 text to AudioBuffer (SpecDecode).               *)
(***************************************************************************)
MaxSamples == 2

B64Alphabet ==
  << "A", "B", "C", "D", "E", "F", "G", "H", "I", "J", "K", "L", "M", "N", "O", "P",
     "Q", "R", "S", "T", "U", "V", "W", "X", "Y", "Z", "a", "b", "c", "d", "e", "f",
     "g", "h", "i", "j", "k", "l", "m", "n", "o", "p", "q", "r", "s", "t", "u", "v",
     "w", "x", "y", "z", "0", "1", "2", "3", "4", "5", "6", "7", "8", "9", "+", "/" >>
B64Chars == {B64Alphabet[i] : i \in 1..Len(B64Alphabet)}
B64Value(c) == (CHOOSE i \in 1..Len(B64Alphabet) : B64Alphabet[i] = c) - 1

\* the bytes of the base64 characters d from position i on
RECURSIVE DecodeQuads(_, _)
DecodeQuads(d, i) ==
  LET r == Len(d) - i + 1 IN
  IF r <= 0 THEN <<>>
  ELSE IF r >= 4
  THEN LET n == B64Value(d[i]) * 262144 + B64Value(d[i + 1]) * 4096
                + B64Value(d[i + 2]) * 64 + B64Value(d[i + 3])
       IN <<n \div 65536, (n \div 256) % 256, n % 256>> \o DecodeQuads(d, i + 4)
  ELSE IF r = 3
  THEN LET n == (B64Value(d[i]) * 4096 + B64Value(d[i + 1]) * 64 + B64Value(d[i + 2])) \div 4
       IN <<n \div 256, n % 256>>
  ELSE <<(B64Value(d[i]) * 64 + B64Value(d[i + 1])) \div 16>>

\* atob: whitespace is removed, one or two padding characters are removed
\* from a text whose length is a multiple of 4, and a text of length 1
\* modulo 4 or with a character outside the alphabet is an error.  The
\* result is the binary string, as the sequence of its character codes.
atob(data) ==
  LET t == SelectSeq(data, LAMBDA c : c \notin WS)
      u == IF Len(t) % 4 = 0 /\ Len(t) > 0 /\ t[Len(t)] = "="
           THEN IF t[Len(t) - 1] = "=" THEN SubSeq(t, 1, Len(t) - 2)
                ELSE SubSeq(t, 1, Len(t) - 1)
           ELSE t
  IN IF Len(u) % 4 = 1 \/ \E i \in 1..Len(u) : u[i] \notin B64Chars
     THEN Throw
     ELSE Return(DecodeQuads(u, 1))

\* the base64 text of a sequence of bytes
RECURSIVE EncodeTriples(_, _)
EncodeTriples(b, i) ==
  LET r == Len(b) - i + 1 IN
  IF r <= 0 THEN <<>>
  ELSE IF r >= 3
  THEN LET n == b[i] * 65536 + b[i + 1] * 256 + b[i + 2]
       IN <<B64Alphabet[(n \div 262144) + 1], B64Alphabet[((n \div 4096) % 64) + 1],
            B64Alphabet[((n \div 64) % 64) + 1], B64Alphabet[(n % 64) + 1]>>
          \o EncodeTriples(b, i + 3)
  ELSE IF r = 2
  THEN LET n == (b[i] * 256 + b[i + 1]) * 4
       IN <<B64Alphabet[(n \div 4096) + 1], B64Alphabet[((n \div 64) % 64) + 1],
            B64Alphabet[(n % 64) + 1], "=">>
  ELSE LET n == b[i] * 16
       IN <<B64Alphabet[(n \div 64) + 1], B64Alphabet[(n % 64) + 1], "=", "=">>

btoa(bytes) == EncodeTriples(bytes, 1)

\* a PCM16 stream: each sample as two bytes, low byte first
RECURSIVE PCM16Bytes(_)
PCM16Bytes(samples) ==
  IF samples = <<>> THEN <<>>
  ELSE LET u == (Head(samples) + 65536) % 65536
       IN <<u % 256, u \div 256>> \o PCM16Bytes(Tail(samples))

\* element i of a view that reads the 16-bit values as unsigned
Uint16At(bytes, i) == bytes[2 * i - 1] + 256 * bytes[2 * i]

\* element i of new Int16Array(bytes.buffer)
Int16At(bytes, i) ==
  LET u == bytes[2 * i - 1] + 256 * bytes[2 * i]
  IN IF u >= 32768 THEN u - 65536 ELSE u

\* dataInt16[i] / 32768.0 as the fraction <<numerator, denominator>>
FrameScale == 32768
DefaultSampleRate == 24000

\* new Int16Array(buffer) throws on an odd byte length, and createBuffer
\* throws on a length of zero frames
decodeAudioData(base64String, sampleRate) ==
  LET binaryString == atob(base64String) IN
  IF binaryString.k = "throw" THEN Throw
  ELSE LET bytes == binaryString.v
           frameCount == Len(bytes) \div 2
       IN IF Len(bytes) % 2 # 0 \/ frameCount = 0 THEN Throw
          ELSE Return([numberOfChannels |-> 1, length |-> frameCount,
                       sampleRate |-> sampleRate,
                       channelData |-> [i \in 1..frameCount |->
                                          <<Int16At(bytes, i), FrameScale>>]])

\* the samples of the streams decoded
Samples == {0 - 32768, 0 - 1, 0, 1, 255, 256, 32767}
SampleStreams == UNION {[1..n -> Samples] : n \in 0..MaxSamples}

InitDecode ==
  /\ decSamples \in SampleStreams
  /\ decInput = btoa(PCM16Bytes(decSamples))
  /\ decResult = JUndef
  /\ AppInit /\ SvcIdle /\ ExamInit /\ GraphInit /\ ChatInit /\ AudioInit

CallDecodeAudioData ==
  /\ decResult = JUndef
  /\ decResult' = decodeAudioData(decInput, DefaultSampleRate)
  /\ UNCHANGED <<decInput, decSamples>>
  /\ UNCHANGED <<svcVars, appVars, examVars, graphVars, chatVars, audioVars>>

NextDecode == CallDecodeAudioData

SpecDecode == InitDecode /\ [][NextDecode]_vars

\* the buffer of N frames at 24000 Hz whose frame i is sample i / 32768
DecodedAsPCM16 ==
  /\ atob(decInput) = Return(PCM16Bytes(decSamples))
  /\ decResult.k = "return"
  /\ decResult.v.numberOfChannels = 1
  /\ decResult.v.length = Len(decSamples)
  /\ decResult.v.sampleRate = 24000
  /\ \A i \in 1..Len(decSamples) :
       /\ decResult.v.channelData[i] = <<decSamples[i], 32768>>
       /\ 0 - 32768 <= decResult.v.channelData[i][1]
       /\ decResult.v.channelData[i][1] <= 32768

\* C18 as stated: for every N, the stream of N samples is decoded to a
\* buffer of N frames at 24000 Hz, frame i being sample i divided by 32768,
\* every value between -1.0 and 1.0.
C18_DecodesEveryStream == decResult # JUndef => DecodedAsPCM16

\* C18: for every N >= 1, the base64 text of a PCM16 mono stream of N
\* samples (2N bytes) is decoded to a buffer of exactly N frames at sample
\* rate 24000, frame i being the i-th signed 16-bit sample divided by 32768,
\* so every value lies between -1.0 and 1.0; the empty stream is rejected.
C18_DecodesPCM16 ==
  decResult # JUndef =>
    IF Len(decSamples) >= 1 THEN DecodedAsPCM16 ELSE decResult = Throw

\* the extreme samples: -32768 becomes -1.0 and 32767 becomes 32767 / 32768
C18_Witness ==
  /\ decSamples = <<0 - 32768, 32767>>
  /\ decResult.k = "return"
  /\ decResult.v.length = 2
  /\ decResult.v.channelData = << <<0 - 32768, 32768>>, <<32767, 32768>> >>

(***************************************************************************)
(* The audio tutor: playAudioTutor and playAudioBuffer (SpecAudio).        *)
(***************************************************************************)
MaxPlaybacks == 4

\* the speech data of two clips, and a text that is no PCM16 stream
ClipA == btoa(PCM16Bytes(<<0, 1>>))
ClipB == btoa(PCM16Bytes(<<0 - 1>>))
BrokenClip == <<"/", "w", "=", "=">>

\* the outcomes of generateAudioLesson: a rejection, no inline data, data
AudioResponses ==
  { Reject, Resolve(JUndef), Resolve(JStr(ClipA)), Resolve(JStr(ClipB)),
    Resolve(JStr(BrokenClip)) }

\* playAudioBuffer: a new source on the buffer, connected and started
playAudioBuffer(buffer, id) == [id |-> id, buffer |-> buffer]

\* the Podcast Mode button is clicked: playAudioTutor up to the first await;
\* the click then reaches the window listener that creates the AudioContext
PlayClick ==
  /\ CourseScreen
  /\ ~loadingAudio
  /\ lessonContent # NoLesson
  /\ audioPc = "idle"
  /\ playbacks < MaxPlaybacks
  /\ playbacks' = playbacks + 1
  /\ loadingAudio' = TRUE
  /\ audioPc' = "synth"
  /\ audioContext' = TRUE
  /\ UNCHANGED <<audioResp, playing>>
  /\ UNCHANGED <<svcVars, appVars, examVars, graphVars, chatVars, decodeVars>>

\* generateAudioLesson ends in resp
SpeechArrives(resp) ==
  /\ audioPc = "synth"
  /\ IF resp.k = "resolve" /\ Truthy(resp.v) /\ audioContext
     THEN /\ audioPc' = "decode"
          /\ audioResp' = resp.v
          /\ UNCHANGED loadingAudio
     ELSE /\ audioPc' = "idle"
          /\ loadingAudio' = FALSE
          /\ UNCHANGED audioResp
  /\ UNCHANGED <<audioContext, playbacks, playing>>
  /\ UNCHANGED <<svcVars, appVars, examVars, graphVars, chatVars, decodeVars>>

SpeechResponse == \E resp \in AudioResponses : SpeechArrives(resp)

\* decodeAudioData ends: the buffer is played, or the catch; then finally
SpeechDecoded ==
  /\ audioPc = "decode"
  /\ LET decoded == decodeAudioData(audioResp.s, DefaultSampleRate) IN
     IF decoded.k = "return"
     THEN playing' = playing \cup {playAudioBuffer(decoded.v, playbacks)}
     ELSE playing' = playing
  /\ audioPc' = "idle"
  /\ audioResp' = JUndef
  /\ loadingAudio' = FALSE
  /\ UNCHANGED <<audioContext, playbacks>>
  /\ UNCHANGED <<svcVars, appVars, examVars, graphVars, chatVars, decodeVars>>

\* a source has played its buffer to the end
PlaybackEnds ==
  /\ \E source \in playing : playing' = playing \ {source}
  /\ UNCHANGED <<loadingAudio, audioContext, audioPc, audioResp, playbacks>>
  /\ UNCHANGED <<svcVars, appVars, examVars, graphVars, chatVars, decodeVars>>

NextAudio ==
  \/ PlayClick
  \/ SpeechResponse
  \/ SpeechDecoded
  \/ PlaybackEnds

\* a course is loaded and the lesson of module A is shown
InitAudio == InitExam

SpecAudio == InitAudio /\ [][NextAudio]_vars

\* C11: at most one audio buffer is playing at any time: when a playback
\* starts, every playback started earlier has been stopped.
C11_SinglePlayback == Cardinality(playing) <= 1

(***************************************************************************)
(* The Sidekick chat: handleSendMessage (SpecChat).                        *)
(***************************************************************************)
MaxChatTurns == 2

\* the texts of the chat input, and the image that can be attached
ChatInputs == {<<>>, <<" ">>, <<"h", "i">>, <<"q">>}
ChatPicture == JStr(<<"i", "m", "g">>)

\* a Message (id and timestamp come from Date.now() and are left out)
UserMessage(content) == [role |-> "user", content |-> content]
ModelMessage(content) == [role |-> "model", content |-> content]

\* the texts chatWithSidekick resolves to: the reply to call i, or the
\* fallback "I couldn't understand that."
ReplyText(i) == <<"r">> \o NumChars(i)
FallbackReply == <<"?">>

\* the history for the service with the model messages left out
apiHistoryUserOnly(history) ==
  LET users == SelectSeq(history, LAMBDA h : h.role = "user") IN
  [n \in 1..Len(users) |-> [role |-> users[n].role, parts |-> <<[text |-> users[n].content]>>]]

\* apiHistory: chatHistory.map(h => ({role: h.role, parts: [{text: h.content}]}))
apiHistory(history) ==
  [n \in 1..Len(history) |->
     [role |-> history[n].role, parts |-> <<[text |-> history[n].content]>>]]

\* the context of a call: lessonContent || "General Syllabus Context"
ChatContext == IF lessonContent = NoLesson THEN [kind |-> "general", req |-> 0] ELSE lessonContent

\* setChatInput from the text field
TypeChat ==
  /\ CourseScreen
  /\ \E text \in ChatInputs \ {chatInput} : chatInput' = text
  /\ UNCHANGED <<chatHistory, chatImage, isChatting, chatCalls>>
  /\ UNCHANGED <<svcVars, appVars, examVars, graphVars, audioVars, decodeVars>>

\* handleImageUpload has read the picture, or the attachment is removed
AttachImage ==
  /\ CourseScreen
  /\ chatImage' = IF chatImage = JNull THEN ChatPicture ELSE JNull
  /\ UNCHANGED <<chatHistory, chatInput, isChatting, chatCalls>>
  /\ UNCHANGED <<svcVars, appVars, examVars, graphVars, audioVars, decodeVars>>

\* handleSendMessage up to the await (send button or Enter key)
SendMessage ==
  /\ CourseScreen
  /\ ~(Trim(chatInput) = <<>> /\ chatImage = JNull)
  /\ Len(chatCalls) < MaxChatTurns
  /\ chatHistory' = Append(chatHistory, UserMessage(chatInput))
  /\ chatInput' = <<>>
  /\ chatImage' = JNull
  /\ isChatting' = TRUE
  /\ chatCalls' = Append(chatCalls,
                         [ history |-> apiHistory(chatHistory), message |-> chatInput,
                           context |-> ChatContext, image |-> chatImage,
                           at |-> Len(chatHistory) + 1, status |-> "pending" ])
  /\ UNCHANGED <<svcVars, appVars, examVars, graphVars, audioVars, decodeVars>>

\* call i ends: a failed call takes the message of the user back
ChatArrivesRollback(i, outcome) ==
  /\ chatCalls[i].status = "pending"
  /\ chatCalls' = [chatCalls EXCEPT ![i].status = outcome]
  /\ chatHistory' =
       CASE outcome = "ok" -> Append(chatHistory, ModelMessage(ReplyText(i)))
         [] outcome = "empty" -> Append(chatHistory, ModelMessage(FallbackReply))
         [] OTHER -> SubSeq(chatHistory, 1, chatCalls[i].at - 1)
                     \o SubSeq(chatHistory, chatCalls[i].at + 1, Len(chatHistory))
  /\ isChatting' = FALSE
  /\ UNCHANGED <<chatInput, chatImage>>
  /\ UNCHANGED <<svcVars, appVars, examVars, graphVars, audioVars, decodeVars>>

\* call i ends with outcome "ok" (a text), "empty" (no text) or "rejected":
\* the model message is appended, or the catch; then finally
ChatArrives(i, outcome) ==
  /\ chatCalls[i].status = "pending"
  /\ chatCalls' = [chatCalls EXCEPT ![i].status = outcome]
  /\ chatHistory' =
       CASE outcome = "ok" -> Append(chatHistory, ModelMessage(ReplyText(i)))
         [] outcome = "empty" -> Append(chatHistory, ModelMessage(FallbackReply))
         [] OTHER -> chatHistory
  /\ isChatting' = FALSE
  /\ UNCHANGED <<chatInput, chatImage>>
  /\ UNCHANGED <<svcVars, appVars, examVars, graphVars, audioVars, decodeVars>>

ChatResponse ==
  \E i \in 1..Len(chatCalls) : \E outcome \in {"ok", "empty", "rejected"} :
    ChatArrives(i, outcome)

NextChat ==
  \/ TypeChat
  \/ AttachImage
  \/ SendMessage
  \/ ChatResponse

\* a course is loaded; no lesson yet, or the lesson of module A is shown
InitChat == InitLesson \/ InitExam

SpecChat == InitChat /\ [][NextChat]_vars

\* C14: the chat history is append-only: every change of chatHistory appends
\* exactly one message at the end and leaves the messages before it as they
\* were, for any interleaving of sends and replies, failed replies included.
C14_HistoryAppendOnly ==
  [][chatHistory' # chatHistory =>
       /\ Len(chatHistory') = Len(chatHistory) + 1
       /\ SubSeq(chatHistory', 1, Len(chatHistory)) = chatHistory]_vars

\* two sends, the first failed and the second answered: three messages
C14_Witness ==
  /\ Len(chatCalls) = 2
  /\ chatCalls[1].status = "rejected"
  /\ chatCalls[2].status = "ok"
  /\ Len(chatHistory) = 3
  /\ chatHistory[1].role = "user"
  /\ chatHistory[2].role = "user"
  /\ chatHistory[3] = ModelMessage(ReplyText(2))

\* C15: the history passed to chatWithSidekick on a turn is exactly the
\* sequence of all messages, of the user and of the model, that precede the
\* new user message in chatHistory, in order; the new message is passed
\* separately and is not part of the history.
C15_FullPriorExchange ==
  \A i \in 1..Len(chatCalls) :
    LET call == chatCalls[i] IN
    /\ call.at <= Len(chatHistory)
    /\ chatHistory[call.at] = UserMessage(call.message)
    /\ Len(call.history) = call.at - 1
    /\ \A n \in 1..(call.at - 1) :
         /\ call.history[n].role = chatHistory[n].role
         /\ call.history[n].parts = <<[text |-> chatHistory[n].content]>>

\* the second turn is sent with the first question and its reply as history
C15_Witness ==
  /\ Len(chatCalls) = 2
  /\ chatCalls[1].status = "ok"
  /\ Len(chatCalls[2].history) = 2
  /\ chatCalls[2].history[1].role = "user"
  /\ chatCalls[2].history[2] = [role |-> "model", parts |-> <<[text |-> ReplyText(1)]>>]
  /\ chatCalls[2].message = <<"q">>

(***************************************************************************)
(* Properties of the lifetimes of simulations, lessons, exams and chats.   *)
(***************************************************************************)
\* C21: when the data of the graph changes, the layout state built for the
\* previous data is discarded: at most one simulation is still running, and
\* it is the one built last, from the data the component holds.
C21_OnlyLatestSimulationRuns ==
  \A i \in 1..Len(sims) :
    sims[i].running =>
      /\ i = Len(sims)
      /\ graphProp # JNull
      /\ sims[i].nodes = SimNodes(graphProp.nodes)

\* the requests still in flight
PendingLessons == {i \in 1..Len(lessonReqs) : lessonReqs[i].status = "pending"}

\* C22: whenever no lesson request is in flight and the most recent request
\* succeeded, lessonContent is the text generated by a request for the
\* active module at the selected depth.
C22_ContentMatchesSelection ==
  (/\ Len(lessonReqs) > 0
   /\ PendingLessons = {}
   /\ lessonReqs[Len(lessonReqs)].status = "ok") =>
    \E i \in 1..Len(lessonReqs) :
      /\ lessonContent = Lesson(i)
      /\ activeModule # JNull
      /\ lessonReqs[i].mod = Get(activeModule, KTitle)
      /\ lessonReqs[i].depth = contentDepth

\* C23: every exam session starts fresh: the step in which startExam
\* delivers a question list and opens the modal leaves the modal in
\* progress (not submitted) with an empty answers mapping.
C23_ExamStartsFresh ==
  [][examPending' < examPending =>
       /\ showExam'
       /\ ~submitted'
       /\ answers' = <<>>]_vars

\* C24: loadingContent is true in every state in which at least one lesson
\* request is still in flight.
C24_LoadingWhilePending == PendingLessons # {} => loadingContent

\* the chatWithSidekick calls still in flight
PendingChats == {i \in 1..Len(chatCalls) : chatCalls[i].status = "pending"}

\* C25: at most one chat request is in flight at a time: no send starts a
\* call while isChatting is true, so every user message is followed by its
\* own reply (or by nothing, when its request failed) before the next user
\* message is appended.
C25_OneChatInFlight ==
  /\ [](Cardinality(PendingChats) <= 1)
  /\ [][Len(chatCalls') > Len(chatCalls) => ~isChatting]_vars
  /\ [](\A i \in 1..Len(chatCalls) :
          chatCalls[i].status = "ok" =>
            /\ chatCalls[i].at < Len(chatHistory)
            /\ chatHistory[chatCalls[i].at + 1] = ModelMessage(ReplyText(i)))

====
